---- MODULE Spec2Model ----
(***************************************************************************)
(* fibb::Array_Wrapper<T, N>: a non-owning view of N contiguous elements.  *)
(*                                                                         *)
(* The model is a caller holding one block of raw storage, T blk[2][N],    *)
(* and two wrapper objects, wrap1 and wrap2.  Addresses are the integers   *)
(* 0 .. 2N-1; a pointer or reference is an address.  The class of          *)
(* src/array_wrapper.hpp is modelled member by member.  src/README.md      *)
(* documents the class by a full listing; the members that listing has and *)
(* the header lacks (the ordering operators, the user-declared copy        *)
(* assignment) are modelled from the listing under the prefix readme_.     *)
(***************************************************************************)
EXTENDS Integers, Sequences, FiniteSets, TLC

VARIABLES mem, m_array, last

vars == <<mem, m_array, last>>

(* Template parameter N, element values 0 .. MaxVal, and the largest index *)
(* handed to at().                                                         *)
N == 2
MaxVal == 1
MaxPos == 10

Values == 0 .. MaxVal
Views == {"wrap1", "wrap2"}

(* T blk[2][N]: the rows blk[0] and blk[1] are the sized arrays a wrapper  *)
(* can be constructed from; a decayed pointer may point at any element     *)
(* that has N elements of the block from it on.                            *)
BlockLen == N + N
Addr == 0 .. (BlockLen - 1)
SizedArrays == {0, N}
DecayedPtrs == 0 .. N

(* A std::array<T, N> of the caller, outside the block. *)
OtherData == BlockLen
ArrayContents == [0 .. (N - 1) -> Values]

NoOp == [op |-> "none"]

(***************************************************************************)
(* Standard algorithms, as their loops.                                    *)
(***************************************************************************)
RECURSIVE fill_n(_, _, _, _)
fill_n(m, first, n, val) ==
    IF n = 0 THEN m
    ELSE fill_n([m EXCEPT ![first] = val], first + 1, n - 1, val)

iter_swap(m, p, q) == [m EXCEPT ![p] = m[q], ![q] = m[p]]

RECURSIVE swap_ranges_loop(_, _, _, _)
swap_ranges_loop(m, first1, last1, first2) ==
    IF first1 = last1 THEN m
    ELSE swap_ranges_loop(iter_swap(m, first1, first2), first1 + 1, last1, first2 + 1)

(* The vectorised form a library may use for trivially swappable T: both   *)
(* ranges are loaded, then stored crosswise.                               *)
swap_ranges_block(m, first1, last1, first2) ==
    LET n == last1 - first1
        m1 == [x \in DOMAIN m |->
                 IF first1 <= x /\ x < last1 THEN m[first2 + (x - first1)] ELSE m[x]]
    IN  [x \in DOMAIN m |->
           IF first2 <= x /\ x < first2 + n THEN m[first1 + (x - first2)] ELSE m1[x]]

(* std::swap_ranges requires ranges that do not overlap; on overlapping    *)
(* ranges the behaviour is undefined and either form may be what runs.  On *)
(* disjoint ranges the two agree.                                          *)
swap_ranges(m, first1, last1, first2) ==
    {swap_ranges_loop(m, first1, last1, first2),
     swap_ranges_block(m, first1, last1, first2)}

RECURSIVE copy_loop(_, _, _, _)
copy_loop(m, first, last_, d_first) ==
    IF first = last_ THEN m
    ELSE copy_loop([m EXCEPT ![d_first] = m[first]], first + 1, last_, d_first + 1)

copy_memmove(m, first, last_, d_first) ==
    [x \in DOMAIN m |->
       IF d_first <= x /\ x < d_first + (last_ - first) THEN m[first + (x - d_first)]
       ELSE m[x]]

(* std::copy requires d_first outside [first, last); inside it the         *)
(* behaviour is undefined: the element loop (non-trivial T) or memmove     *)
(* (trivially copyable T) may run.  Elsewhere the two agree.               *)
std_copy(m, first, last_, d_first) ==
    {copy_loop(m, first, last_, d_first), copy_memmove(m, first, last_, d_first)}

RECURSIVE std_equal(_, _, _, _)
std_equal(m, first1, last1, first2) ==
    IF first1 = last1 THEN TRUE
    ELSE IF m[first1] # m[first2] THEN FALSE
    ELSE std_equal(m, first1 + 1, last1, first2 + 1)

comp(c, x, y) ==
    CASE c = "lt" -> x < y
      [] c = "gt" -> x > y
      [] c = "le" -> x <= y
      [] c = "ge" -> x >= y

RECURSIVE lexicographical_compare(_, _, _, _, _, _)
lexicographical_compare(m, first1, last1, first2, last2, c) ==
    IF first1 # last1 /\ first2 # last2
    THEN IF comp(c, m[first1], m[first2]) THEN TRUE
         ELSE IF comp(c, m[first2], m[first1]) THEN FALSE
         ELSE lexicographical_compare(m, first1 + 1, last1, first2 + 1, last2, c)
    ELSE first1 = last1 /\ first2 # last2

RECURSIVE to_string(_)
to_string(n) == IF n < 10 THEN <<n>> ELSE Append(to_string(n \div 10), n % 10)

(***************************************************************************)
(* Members of Array_Wrapper (src/array_wrapper.hpp).  v, other name        *)
(* constructed wrappers; a returned reference or iterator is an address.   *)
(***************************************************************************)
ctor_sized(array_) == array_
ctor_decayed(array_) == array_

operator_eq(v, other) == m_array[v] = m_array[other]
operator_ne(v, other) == m_array[v] # m_array[other]

begin(v) == m_array[v]
(* end() one element short. *)
end_short(v) == m_array[v] + (N - 1)
end(v) == m_array[v] + N
rbegin(v) == [current |-> end(v)]
rend(v) == [current |-> begin(v)]

(* Dereferencing the base iterator itself. *)
reverse_deref_base(it) == it.current

(* std::reverse_iterator: *it is *(current - 1), ++it is --current. *)
reverse_deref(it) == it.current - 1
reverse_advance(it, k) == [current |-> it.current - k]

size(v) == N
max_size(v) == N
(* return N; in a function returning bool: the conversion N != 0. *)
empty(v) == N # 0

index(v, pos) == m_array[v] + pos

(* The bound test written pos > N. *)
at_off_by_one(v, pos) ==
    IF pos > N
    THEN [ok |-> FALSE, prefix |-> "Out of range: ", digits |-> to_string(pos)]
    ELSE [ok |-> TRUE, ref |-> m_array[v] + pos]

at(v, pos) ==
    IF pos >= N
    THEN [ok |-> FALSE, prefix |-> "Out of range: ", digits |-> to_string(pos)]
    ELSE [ok |-> TRUE, ref |-> m_array[v] + pos]

front(v) == m_array[v] + 0
back(v) == m_array[v] + (N - 1)
data(v) == m_array[v]

(* fill_n over N - 1 elements. *)
fill_short(m, v, val) == fill_n(m, begin(v), N - 1, val)
fill(m, v, val) == fill_n(m, begin(v), N, val)

(* The elements of other copied over, not exchanged. *)
swap_one_way(m, v, other) ==
    IF m_array[v] # m_array[other]
    THEN {copy_loop(m, begin(other), end(other), begin(v))}
    ELSE {m}

swap(m, v, other) ==
    IF m_array[v] # m_array[other]
    THEN swap_ranges(m, begin(v), end(v), begin(other))
    ELSE {m}

(* swap(std::array&): the array is laid out at other_data, next to m. *)
swap_array(m, v, other_data) ==
    IF m_array[v] # other_data
    THEN swap_ranges(m, begin(v), end(v), other_data)
    ELSE {m}

(* The class declares no operator=: the implicit copy assignment copies    *)
(* the one data member, the pointer.                                       *)
implicit_copy_assign(v, other) == [m_array EXCEPT ![v] = m_array[other]]

(***************************************************************************)
(* Members the listing of src/README.md has and the header has not.        *)
(***************************************************************************)
readme_operator_eq(m, v, other) == std_equal(m, begin(v), end(v), begin(other))
readme_operator_ne(m, v, other) == ~readme_operator_eq(m, v, other)

readme_operator_lt(m, v, other) ==
    lexicographical_compare(m, begin(v), end(v), begin(other), end(other), "lt")
readme_operator_gt(m, v, other) ==
    lexicographical_compare(m, begin(v), end(v), begin(other), end(other), "gt")
readme_operator_le(m, v, other) ==
    lexicographical_compare(m, begin(v), end(v), begin(other), end(other), "le")
readme_operator_ge(m, v, other) ==
    lexicographical_compare(m, begin(v), end(v), begin(other), end(other), "ge")

readme_copy_assign(m, v, other) ==
    IF readme_operator_ne(m, v, other)
    THEN std_copy(m, begin(other), end(other), begin(v))
    ELSE {m}

(***************************************************************************)
(* Traversals: the addresses visited from begin() to end(), and from       *)
(* rbegin() to rend().                                                     *)
(***************************************************************************)
RECURSIVE forward_traversal(_, _)
forward_traversal(it, last_) ==
    IF it = last_ THEN <<>> ELSE <<it>> \o forward_traversal(it + 1, last_)

RECURSIVE reverse_traversal(_, _)
reverse_traversal(it, last_) ==
    IF it.current = last_.current THEN <<>>
    ELSE <<reverse_deref(it)>> \o reverse_traversal(reverse_advance(it, 1), last_)

(***************************************************************************)
(* The caller.  Every step is one statement of the caller: it constructs   *)
(* or destroys a wrapper, or calls one member; last records the statement  *)
(* and what it returned or threw, until the caller goes on (Continue).     *)
(***************************************************************************)
Idle == last.op = "none"
Live == DOMAIN m_array

Init ==
    /\ mem \in [Addr -> Values]
    /\ m_array = <<>>
    /\ last = NoOp

ConstructSized(v, array_) ==
    /\ Idle /\ v \notin Live
    /\ m_array' = (v :> ctor_sized(array_)) @@ m_array
    /\ last' = [op |-> "ctor_sized", a |-> v, arg |-> array_]
    /\ UNCHANGED mem

ConstructDecayed(v, array_) ==
    /\ Idle /\ v \notin Live
    /\ m_array' = (v :> ctor_decayed(array_)) @@ m_array
    /\ last' = [op |-> "ctor_decayed", a |-> v, arg |-> array_]
    /\ UNCHANGED mem

Destroy(v) ==
    /\ Idle /\ v \in Live
    /\ m_array' = [w \in Live \ {v} |-> m_array[w]]
    /\ last' = [op |-> "dtor", a |-> v]
    /\ UNCHANGED mem

Equal(v, other) ==
    /\ Idle /\ v \in Live /\ other \in Live
    /\ last' = [op |-> "eq", a |-> v, b |-> other, ret |-> operator_eq(v, other)]
    /\ UNCHANGED <<mem, m_array>>

NotEqual(v, other) ==
    /\ Idle /\ v \in Live /\ other \in Live
    /\ last' = [op |-> "ne", a |-> v, b |-> other, ret |-> operator_ne(v, other)]
    /\ UNCHANGED <<mem, m_array>>

Less(v, other) ==
    /\ Idle /\ v \in Live /\ other \in Live
    /\ last' = [op |-> "lt", a |-> v, b |-> other,
                ret |-> readme_operator_lt(mem, v, other)]
    /\ UNCHANGED <<mem, m_array>>

Greater(v, other) ==
    /\ Idle /\ v \in Live /\ other \in Live
    /\ last' = [op |-> "gt", a |-> v, b |-> other,
                ret |-> readme_operator_gt(mem, v, other)]
    /\ UNCHANGED <<mem, m_array>>

LessEqual(v, other) ==
    /\ Idle /\ v \in Live /\ other \in Live
    /\ last' = [op |-> "le", a |-> v, b |-> other,
                ret |-> readme_operator_le(mem, v, other)]
    /\ UNCHANGED <<mem, m_array>>

GreaterEqual(v, other) ==
    /\ Idle /\ v \in Live /\ other \in Live
    /\ last' = [op |-> "ge", a |-> v, b |-> other,
                ret |-> readme_operator_ge(mem, v, other)]
    /\ UNCHANGED <<mem, m_array>>

(* v.fill(val).  The caller may repeat the call it has just made. *)
Fill(v, val) ==
    /\ Idle \/ last.op = "fill"
    /\ v \in Live
    /\ mem' = fill(mem, v, val)
    /\ last' = [op |-> "fill", a |-> v, val |-> val,
                again |-> (last.op = "fill" /\ last.a = v /\ last.val = val)]
    /\ UNCHANGED m_array

Swap(v, other) ==
    /\ Idle /\ v \in Live /\ other \in Live
    /\ mem' \in swap(mem, v, other)
    /\ last' = [op |-> "swap", a |-> v, b |-> other]
    /\ UNCHANGED m_array

(* v.swap(arr) for a std::array arr holding contents; last keeps what arr  *)
(* holds afterwards.                                                       *)
SwapArray(v, contents) ==
    /\ Idle /\ v \in Live
    /\ LET both == [x \in Addr \cup (OtherData .. (OtherData + N - 1)) |->
                      IF x \in Addr THEN mem[x] ELSE contents[x - OtherData]]
       IN  \E m2 \in swap_array(both, v, OtherData) :
               /\ mem' = [x \in Addr |-> m2[x]]
               /\ last' = [op |-> "swap_array", a |-> v, arr |-> contents,
                           arr_after |-> [i \in 0 .. (N - 1) |-> m2[OtherData + i]]]
    /\ UNCHANGED m_array

(* v = other, as the header compiles it. *)
Assign(v, other) ==
    /\ Idle /\ v \in Live /\ other \in Live
    /\ m_array' = implicit_copy_assign(v, other)
    /\ last' = [op |-> "assign", a |-> v, b |-> other]
    /\ UNCHANGED mem

(* v = other, as the class of the README listing compiles it. *)
ReadmeAssign(v, other) ==
    /\ Idle /\ v \in Live /\ other \in Live
    /\ mem' \in readme_copy_assign(mem, v, other)
    /\ last' = [op |-> "readme_assign", a |-> v, b |-> other]
    /\ UNCHANGED m_array

(* v[pos] = val; an index out of range is undefined and left out. *)
IndexWrite(v, pos, val) ==
    /\ Idle /\ v \in Live /\ pos < N
    /\ mem' = [mem EXCEPT ![index(v, pos)] = val]
    /\ last' = [op |-> "index", a |-> v, pos |-> pos, val |-> val]
    /\ UNCHANGED m_array

(* v.at(pos) = val; when at() throws, the assignment is never reached. *)
AtWrite(v, pos, val) ==
    /\ Idle /\ v \in Live
    /\ LET r == at(v, pos)
       IN  IF r.ok
           THEN /\ mem' = [mem EXCEPT ![r.ref] = val]
                /\ last' = [op |-> "at", a |-> v, pos |-> pos, val |-> val, ret |-> r]
           ELSE /\ mem' = mem
                /\ last' = [op |-> "at", a |-> v, pos |-> pos, ret |-> r]
    /\ UNCHANGED m_array

FrontWrite(v, val) ==
    /\ Idle /\ v \in Live
    /\ mem' = [mem EXCEPT ![front(v)] = val]
    /\ last' = [op |-> "front", a |-> v, val |-> val]
    /\ UNCHANGED m_array

BackWrite(v, val) ==
    /\ Idle /\ v \in Live
    /\ mem' = [mem EXCEPT ![back(v)] = val]
    /\ last' = [op |-> "back", a |-> v, val |-> val]
    /\ UNCHANGED m_array

(* *(v.begin() + k) = val, for an iterator inside [begin(), end()). *)
IterWrite(v, k, val) ==
    /\ Idle /\ v \in Live /\ k < N
    /\ mem' = [mem EXCEPT ![begin(v) + k] = val]
    /\ last' = [op |-> "iter", a |-> v, pos |-> k, val |-> val]
    /\ UNCHANGED m_array

(* *(v.rbegin() + k) = val, for an iterator inside [rbegin(), rend()). *)
ReverseIterWrite(v, k, val) ==
    /\ Idle /\ v \in Live /\ k < N
    /\ mem' = [mem EXCEPT ![reverse_deref(reverse_advance(rbegin(v), k))] = val]
    /\ last' = [op |-> "riter", a |-> v, pos |-> k, val |-> val]
    /\ UNCHANGED m_array

Empty(v) ==
    /\ Idle /\ v \in Live
    /\ last' = [op |-> "empty", a |-> v, ret |-> empty(v)]
    /\ UNCHANGED <<mem, m_array>>

Size(v) ==
    /\ Idle /\ v \in Live
    /\ last' = [op |-> "size", a |-> v, ret |-> size(v), max |-> max_size(v),
                distance |-> end(v) - begin(v)]
    /\ UNCHANGED <<mem, m_array>>

Data(v) ==
    /\ Idle /\ v \in Live
    /\ last' = [op |-> "data", a |-> v, ret |-> data(v), first |-> begin(v)]
    /\ UNCHANGED <<mem, m_array>>

Continue ==
    /\ ~Idle
    /\ last' = NoOp
    /\ UNCHANGED <<mem, m_array>>

Next ==
    \/ \E v \in Views, array_ \in SizedArrays : ConstructSized(v, array_)
    \/ \E v \in Views, array_ \in DecayedPtrs : ConstructDecayed(v, array_)
    \/ \E v \in Views : Destroy(v)
    \/ \E v \in Views, other \in Views : Equal(v, other)
    \/ \E v \in Views, other \in Views : NotEqual(v, other)
    \/ \E v \in Views, other \in Views : Less(v, other)
    \/ \E v \in Views, other \in Views : Greater(v, other)
    \/ \E v \in Views, other \in Views : LessEqual(v, other)
    \/ \E v \in Views, other \in Views : GreaterEqual(v, other)
    \/ \E v \in Views, val \in Values : Fill(v, val)
    \/ \E v \in Views, other \in Views : Swap(v, other)
    \/ \E v \in Views, contents \in ArrayContents : SwapArray(v, contents)
    \/ \E v \in Views, other \in Views : Assign(v, other)
    \/ \E v \in Views, other \in Views : ReadmeAssign(v, other)
    \/ \E v \in Views, pos \in 0 .. MaxPos, val \in Values : IndexWrite(v, pos, val)
    \/ \E v \in Views, pos \in 0 .. MaxPos, val \in Values : AtWrite(v, pos, val)
    \/ \E v \in Views, val \in Values : FrontWrite(v, val)
    \/ \E v \in Views, val \in Values : BackWrite(v, val)
    \/ \E v \in Views, k \in 0 .. MaxPos, val \in Values : IterWrite(v, k, val)
    \/ \E v \in Views, k \in 0 .. MaxPos, val \in Values : ReverseIterWrite(v, k, val)
    \/ \E v \in Views : Empty(v)
    \/ \E v \in Views : Size(v)
    \/ \E v \in Views : Data(v)
    \/ Continue

Spec == Init /\ [][Next]_vars

(***************************************************************************)
(* Vocabulary of the properties.                                           *)
(***************************************************************************)
Contents(m, p) == [i \in 0 .. (N - 1) |-> m[p + i]]
Disjoint(p, q) == p + N <= q \/ q + N <= p
Inside(p, q) == q < p /\ p < q + N

LexLess(s, t) ==
    \E i \in 0 .. (N - 1) : s[i] < t[i] /\ \A j \in 0 .. (i - 1) : s[j] = t[j]

RECURSIVE Decimal(_)
Decimal(d) ==
    IF Len(d) = 0 THEN 0 ELSE 10 * Decimal(SubSeq(d, 1, Len(d) - 1)) + d[Len(d)]

ElementWrites == {"index", "at", "front", "back", "iter", "riter"}

(* The slot of its wrapper a recorded element write is aimed at. *)
SlotOf(l) ==
    CASE l.op \in {"index", "at", "iter"} -> l.pos
      [] l.op = "front" -> 0
      [] l.op = "back" -> N - 1
      [] l.op = "riter" -> (N - 1) - l.pos

Wrote(l) == l.op \in ElementWrites /\ (l.op = "at" => l.ret.ok)

(***************************************************************************)
(* C1.  a == b is true exactly when the N elements of a's storage equal    *)
(* those of b's position by position, whatever the two addresses are, and  *)
(* a != b is its negation.                                                 *)
(***************************************************************************)
C1_EqualityByContents ==
    /\ last.op = "eq" =>
         last.ret = (Contents(mem, m_array[last.a]) = Contents(mem, m_array[last.b]))
    /\ last.op = "ne" =>
         last.ret = (Contents(mem, m_array[last.a]) # Contents(mem, m_array[last.b]))

(***************************************************************************)
(* C2.  After a = b with b over storage distinct from a's, the storage a   *)
(* referenced before holds b's elements, a still references that storage,  *)
(* and b's storage is unchanged.                                           *)
(***************************************************************************)
C2_AssignThrough ==
    [][(last'.op = "assign" /\ Disjoint(m_array[last'.a], m_array[last'.b])) =>
         /\ Contents(mem', m_array[last'.a]) = Contents(mem, m_array[last'.b])
         /\ m_array'[last'.a] = m_array[last'.a]
         /\ Contents(mem', m_array[last'.b]) = Contents(mem, m_array[last'.b])]_vars

(***************************************************************************)
(* C3.  swap exchanges contents and never bindings: over distinct storages *)
(* each storage ends with the other's former contents; over the same       *)
(* storage nothing changes; both wrappers keep their storage.  The same    *)
(* with a std::array.                                                      *)
(***************************************************************************)
C3_SwapExchangesContents ==
    [][/\ last'.op = "swap" =>
            LET p == m_array[last'.a]
                q == m_array[last'.b]
            IN  /\ Disjoint(p, q) =>
                     /\ Contents(mem', p) = Contents(mem, q)
                     /\ Contents(mem', q) = Contents(mem, p)
                /\ p = q => mem' = mem
                /\ m_array' = m_array
       /\ last'.op = "swap_array" =>
            /\ Contents(mem', m_array[last'.a]) = last'.arr
            /\ last'.arr_after = Contents(mem, m_array[last'.a])
            /\ m_array' = m_array]_vars

C3_Witness ==
    /\ last.op = "swap"
    /\ Disjoint(m_array[last.a], m_array[last.b])
    /\ Contents(mem, m_array[last.a]) # Contents(mem, m_array[last.b])

(***************************************************************************)
(* C4.  at(pos) returns the slot of operator[](pos) for every pos < N      *)
(* (front() is slot 0, back() is slot N-1); for every pos >= N it throws   *)
(* an out-of-range error whose text carries pos, returns no reference and  *)
(* changes neither an element nor a binding.                               *)
(***************************************************************************)
C4_CheckedAccess ==
    [][last'.op = "at" =>
         LET v == last'.a
             pos == last'.pos
             r == last'.ret
         IN  /\ pos < N =>
                  /\ r.ok
                  /\ r.ref = index(v, pos)
                  /\ front(v) = index(v, 0)
                  /\ back(v) = index(v, N - 1)
             /\ pos >= N =>
                  /\ ~r.ok
                  /\ r.prefix = "Out of range: "
                  /\ Decimal(r.digits) = pos
                  /\ \A i \in 1 .. Len(r.digits) : r.digits[i] \in 0 .. 9
                  /\ mem' = mem
                  /\ m_array' = m_array]_vars

C4_Witness == last.op = "at" /\ last.pos = N /\ ~last.ret.ok

(***************************************************************************)
(* C5.  a < b, a > b, a <= b, a >= b each match the lexicographic          *)
(* comparison of the contents: a < b exactly when a's element is smaller   *)
(* at the first index where they differ; a > b is b < a; a <= b is         *)
(* not (b < a); a >= b is not (a < b).                                     *)
(***************************************************************************)
C5_OrderingIsLexicographic ==
    LET s == Contents(mem, m_array[last.a])
        t == Contents(mem, m_array[last.b])
    IN  /\ last.op = "lt" => last.ret = LexLess(s, t)
        /\ last.op = "gt" => last.ret = LexLess(t, s)
        /\ last.op = "le" => last.ret = ~LexLess(t, s)
        /\ last.op = "ge" => last.ret = ~LexLess(s, t)

(***************************************************************************)
(* C6.  A wrapper aliases its storage: constructed from a sized array or   *)
(* from a decayed pointer, its begin() and data() are the address it was   *)
(* given; a write through operator[], at, front, back, fill or a forward   *)
(* or reverse iterator lands in the storage itself, where every wrapper    *)
(* bound to it reads it; constructing or destroying a wrapper changes no   *)
(* element.                                                                *)
(***************************************************************************)
C6_Aliasing ==
    [][/\ last'.op \in {"ctor_sized", "ctor_decayed"} =>
            /\ \A v \in Views :
                 v = last'.a => begin(v)' = last'.arg /\ data(v)' = last'.arg
            /\ mem' = mem
       /\ last'.op = "dtor" => mem' = mem
       /\ Wrote(last') =>
            LET x == m_array[last'.a] + SlotOf(last')
            IN  /\ mem'[x] = last'.val
                /\ \A y \in Addr \ {x} : mem'[y] = mem[y]
                /\ \A w \in Live :
                     m_array[w] = m_array[last'.a] =>
                        mem'[index(w, SlotOf(last'))] = last'.val
       /\ last'.op = "fill" =>
            \A w \in Live :
               m_array[w] = m_array[last'.a] =>
                  \A i \in 0 .. (N - 1) : mem'[index(w, i)] = last'.val]_vars

C6_Witness ==
    /\ Live = Views
    /\ m_array["wrap1"] = m_array["wrap2"]
    /\ last.op = "riter" /\ last.a = "wrap2" /\ last.pos = 0
    /\ mem[index("wrap1", N - 1)] = last.val
    /\ mem[index("wrap1", 0)] # last.val

(***************************************************************************)
(* C7.  fill(v) writes v into each of the N slots, whatever they held, and *)
(* changes nothing else; repeating fill(v) leaves the contents as the      *)
(* first fill(v) left them.                                                *)
(***************************************************************************)
C7_Fill ==
    [][last'.op = "fill" =>
         LET p == m_array[last'.a]
         IN  /\ \A x \in Addr :
                  mem'[x] = IF p <= x /\ x < p + N THEN last'.val ELSE mem[x]
             /\ m_array' = m_array
             /\ last'.again => mem' = mem]_vars

C7_Witness == last.op = "fill" /\ last.again

(***************************************************************************)
(* C8.  empty() returns false for every wrapper, in every state.           *)
(***************************************************************************)
C8_NeverEmpty == last.op = "empty" => last.ret = FALSE

(***************************************************************************)
(* C9.  In every reachable state size() and max_size() are N, the          *)
(* distance end() - begin() is N, and a forward and a reverse traversal    *)
(* each visit N elements.                                                  *)
(***************************************************************************)
C9_SizeIsN ==
    /\ \A v \in Live :
         /\ size(v) = N
         /\ max_size(v) = N
         /\ end(v) - begin(v) = N
         /\ Len(forward_traversal(begin(v), end(v))) = N
         /\ Len(reverse_traversal(rbegin(v), rend(v))) = N
    /\ last.op = "size" => last.ret = N /\ last.max = N /\ last.distance = N

C9_Witness == last.op = "size" /\ Live = Views /\ last.ret = N

(***************************************************************************)
(* C10.  When a's first slot lies inside b's run, after a = b the N slots  *)
(* a referenced hold the N values b's slots held just before.              *)
(***************************************************************************)
C10_OverlappingAssign ==
    [][(/\ last'.op \in {"assign", "readme_assign"}
        /\ Inside(m_array[last'.a], m_array[last'.b])) =>
         Contents(mem', m_array[last'.a]) = Contents(mem, m_array[last'.b])]_vars

====
